---------------------------- MODULE Spec2Model ----------------------------
(***************************************************************************)
(* A model of drain-service/drain_training_inferencing.py: the scoring     *)
(* stage (train_and_inference), the ingestion handlers (consume_logs), the *)
(* persistence stage (update_es_logs) and the retrain signal controller    *)
(* (training_signal_check).                                                *)
(***************************************************************************)
EXTENDS Integers, Sequences, FiniteSets, TLC

(***************************************************************************)
(* Bounds of the model.                                                    *)
(***************************************************************************)
\* sampled ticks of the controller in the free-input specification
MaxTicks == 6
\* loop passes of the controller skipped before the first sample
MaxIdle == 1
\* the clock value at which training_signal_check starts
StartTime == 3
\* sampled ticks of the controller in the slow-growth specification
MaxRampTicks == 34
\* in the slow-growth specification the cluster count may grow by one
\* only on every RampPeriod-th sample
RampPeriod == 4
\* sampled ticks of the controller in the long-run specification
MaxFillTicks == 52
\* in the long-run specification the cluster count may grow by one only on
\* every FillPeriod-th sample
FillPeriod == 13
\* sampled ticks of the controller in the burst specification, where a
\* burst of new templates may come on every RampPeriod-th sample
MaxSpikeTicks == 17

\* batches received on "preprocessed_logs" in the pipeline specification
MaxBatches == 2
\* batches received in the scoring specification
MaxScoredBatches == 1
\* records of one batch in the scoring specification
MaxBatchLen == 2
\* batches received, and sampled ticks of the controller, in the
\* specification of the controller running beside the scoring stage
MaxLiveBatches == 2
\* batches received in the specification of normal operation
MaxNormalBatches == 4
MaxLiveTicks == 4

(***************************************************************************)
(* Program constants.                                                      *)
(***************************************************************************)
\* deque([], 50)
QueueCap == 50
\* await asyncio.sleep(20)
SleepSeconds == 20
\* training_start_ts_ns = -1.0
NoPeriod == -1
\* len(num_total_clusters_tracking_queue) > 3
MinSamples == 3
\* num_clusters[:10]
RecentSpan == 10

\* drain_matched_template_support <= 10 and != 10
SupportLimit == 10
\* asyncio.Queue(loop=loop): maxsize defaults to 0, which means no limit
QueueMaxSize == 0

\* masked_log texts, as sequences of characters
Texts == {<<>>, <<"a">>, <<"a", "b">>}
\* FAIL_KEYWORDS after split(","): "", "b", "b,,a"
KeywordConfigs == {<< <<>> >>, << <<"b">> >>, << <<"b">>, <<>>, <<"a">> >>}
\* cluster sizes drain3_state.bin may hold for a template at start-up
StoredSizes == {0, 9}
\* what one async_streaming_bulk call may do
BulkOutcomes == {"ok", "bulk_index_error", "connection_timeout",
                 "timeout_error", "transport_na", "transport_status"}

\* cluster counts the controller may read in the free-input specification
Counts == {0, 1, 5, 7, 10}
\* cluster counts at the first sample of the slow-growth specification
RampStarts == {6, 7, 8}
\* cluster counts at the first sample of the burst specification
SpikeStarts == {6, 7}
\* clusters a burst of new templates adds between two samples
SpikeJumps == {2, 3}
\* clock advance between two successive reads of time.time_ns() in one pass
ReadGaps == {0, 1}

VARIABLES
    \* ---- training_signal_check ----
    num_total_clusters_tracking_queue,  \* deque, most recent first
    iteration,
    num_templates_in_last_train,
    train_on_next_chance,
    stable,
    training_start_ts_ns,
    very_first_ts_ns,
    normal_periods,
    clock,          \* time.time_ns()
    train_events,   \* payloads published on "train", oldest first
    idle,           \* loop passes skipped by the `continue` of line 266
    tick_log,       \* what the last loop pass did (history)
    ctl_pc,         \* where training_signal_check is suspended: in the
                    \* sleep of line 262 or in the publish of line 320
    always_high,    \* every acting pass so far saw weighted_vol >= 0.199 (history)
    volatile_since_trigger, \* a pass since the last trigger saw weighted_vol >= 0.199 (history)
    \* ---- the pipeline ----
    fail_keywords,                    \* os.environ["FAIL_KEYWORDS"].split(",")
    incoming_logs_to_train_queue,
    logs_to_update_in_elasticsearch,
    nats_anomalies,                   \* messages in flight on subject "anomalies"
    clusters,                         \* template_miner.drain.clusters
    num_clusters_created_tracking_queue,
    num_templates_changed_tracking_queue,
    num_no_templates_change_tracking_queue,
    es,                               \* how often setup_es_connection ran
    crashed,                          \* a task has raised
    received,                         \* batches received so far
    score_log,                        \* what the last scoring pass did (history)
    published_log,                    \* every prediction payload published (history)
    persist_pc,                       \* where update_es_logs is suspended: in
                                      \* queue.get() or in a bulk call
    persist_df,                       \* df of the pass under way
    persist_first,                    \* what its first bulk call did (history)
    popped_log,                       \* every batch update_es_logs popped (history)
    persist_log,                      \* what the last finished persistence pass did (history)
    score_pc,                         \* train_and_inference is "running" or
                                      \* has "raised"
    \* ---- the event loop of lines 360-367 ----
    loop_left,      \* once a task raised: the loop iterations that still
                    \* start before run_until_complete stops the loop
    ran,            \* once a task raised: the tasks that have run in the
                    \* loop iteration under way
    stopped         \* run_until_complete has stopped the loop and raised

ctl_vars == <<num_total_clusters_tracking_queue, iteration,
              num_templates_in_last_train, train_on_next_chance, stable,
              training_start_ts_ns, very_first_ts_ns, normal_periods, clock,
              train_events, idle, tick_log, ctl_pc, always_high,
              volatile_since_trigger>>

pipe_vars == <<fail_keywords, incoming_logs_to_train_queue,
               logs_to_update_in_elasticsearch, nats_anomalies, clusters,
               num_clusters_created_tracking_queue,
               num_templates_changed_tracking_queue,
               num_no_templates_change_tracking_queue, es, crashed, received,
               score_log, published_log, persist_pc, persist_df,
               persist_first, popped_log, persist_log, score_pc>>

loop_vars == <<loop_left, ran, stopped>>

vars == <<ctl_vars, pipe_vars, loop_vars>>

(***************************************************************************)
(* The event loop, lines 360-367.  run_until_complete(gather(...)) runs    *)
(* the tasks until one raises.  The raise of a task is handed to gather    *)
(* by a callback that the loop runs in its next iteration, and from        *)
(* gather to run_until_complete by a callback that the loop runs in the    *)
(* iteration after that; that callback stops the loop at the end of its    *)
(* iteration.  Until then the loop goes on running what is ready: the      *)
(* rest of the iteration of the raise and two iterations more.  A task     *)
(* that has run up to an await resumes in a later iteration at the         *)
(* earliest, so it runs at most once in an iteration.                      *)
(***************************************************************************)
StopDelay == 2

\* a task resumes and runs up to its next await
Segment(task) ==
    /\ ~stopped
    /\ task \notin ran
    /\ ran' = IF crashed THEN ran \cup {task} ELSE ran
    /\ UNCHANGED <<loop_left, stopped>>

\* a subscription handler is called with a message that has arrived
Handled ==
    /\ ~stopped
    /\ UNCHANGED loop_vars

LoopInit ==
    /\ loop_left = StopDelay
    /\ ran = {}
    /\ stopped = FALSE

Min(a, b) == IF a <= b THEN a ELSE b

\* the sum of the first n entries of the sequence s
RECURSIVE SumFirst(_, _)
SumFirst(s, n) == IF n = 0 THEN 0 ELSE s[n] + SumFirst(s, n - 1)

(***************************************************************************)
(* weighted_avg_and_std and weighted_vol, first in exact integer           *)
(* arithmetic.                                                             *)
(* With n samples x[1..n] (most recent first) the weights are              *)
(* flip(arange(1, n+1) / n), i.e. x[i] weighs (n-i+1)/n; the common factor *)
(* 1/n cancels in both weighted averages.  With W[i] = n-i+1, S = sum W,   *)
(* A = sum W[i]*x[i] and Q = sum W[i]*x[i]^2:                              *)
(*    average  = A / S                                                     *)
(*    variance = (S*Q - A^2) / S^2                                         *)
(*    weighted_vol = sqrt(S*Q - A^2) / S  /  (T / k)                       *)
(* where T is the sum of the k = min(n, 10) most recent samples.           *)
(***************************************************************************)
Weight(n, i) == n - i + 1

WeightSum(n) == (n * (n + 1)) \div 2

WeightedSum(x) ==
    LET n == Len(x)
        f == [i \in 1..n |-> Weight(n, i) * x[i]]
    IN  SumFirst(f, n)

WeightedSquares(x) ==
    LET n == Len(x)
        f == [i \in 1..n |-> Weight(n, i) * x[i] * x[i]]
    IN  SumFirst(f, n)

\* S^2 * variance
VarianceNum(x) ==
    LET a == WeightedSum(x)
    IN  WeightSum(Len(x)) * WeightedSquares(x) - a * a

RecentCount(x) == Min(Len(x), RecentSpan)

RecentSum(x) == SumFirst(x, RecentCount(x))

\* The sign of a^2 * d - b^2 for naturals a > 0, d, b, and a lower bound
\* of its absolute value that is 0 only if the sign is, computed without
\* forming either product, neither of which fits a 32-bit integer.
CompareSq(a, d, b) ==
    LET u  == b \div a
        v  == b % a
        r  == d - u * u
    IN  IF r < 0 THEN [sign |-> -1, gap |-> a * a]
        ELSE IF r >= 2 * u + 1 THEN [sign |-> 1, gap |-> a * (u + 1)]
        ELSE LET r2 == r * a - 2 * u * v
             IN  IF r2 < 0 THEN [sign |-> -1, gap |-> a]
                 ELSE IF r2 >= a THEN [sign |-> 1, gap |-> a]
                 ELSE LET r3 == r2 * a - v * v
                      IN  IF r3 < 0 THEN [sign |-> -1, gap |-> -r3]
                          ELSE IF r3 > 0 THEN [sign |-> 1, gap |-> r3]
                          ELSE [sign |-> 0, gap |-> 0]

SignSq(a, d, b) == CompareSq(a, d, b).sign

\* Whether a^2 * d and b^2 are equal or differ by less than b^2 / 2^40.  The
\* doubles of the program carry a relative error of some 2^-50, so outside
\* this band they compare as the exact numbers do, and inside it (an exact
\* tie included) the outcome is the one the doubles give.
NearTie(a, d, b) ==
    LET h == b \div (2 ^ 20)
    IN  h * h >= CompareSq(a, d, b).gap

(***************************************************************************)
(* The doubles of numpy and math: IEEE 754 binary64 with rounding to the   *)
(* nearest, ties to even.  A natural number of any size is the sequence of *)
(* its digits to the base 2^15, least significant first, without leading   *)
(* zeros; a double is 0 (m = <<>>) or m * 2^e with 2^52 <= m < 2^53.       *)
(***************************************************************************)
DigitBits == 15

Base == 2 ^ DigitBits

MantissaBits == 53

RECURSIVE BigTrim(_)
BigTrim(a) ==
    IF a # <<>> /\ a[Len(a)] = 0
    THEN BigTrim(SubSeq(a, 1, Len(a) - 1))
    ELSE a

RECURSIVE BigOf(_)
BigOf(n) == IF n = 0 THEN <<>> ELSE <<n % Base>> \o BigOf(n \div Base)

Digit(a, i) == IF i <= Len(a) THEN a[i] ELSE 0

RECURSIVE BigAddFrom(_, _, _, _)
BigAddFrom(a, b, i, carry) ==
    IF i > Len(a) /\ i > Len(b)
    THEN (IF carry = 0 THEN <<>> ELSE <<carry>>)
    ELSE LET s == Digit(a, i) + Digit(b, i) + carry
         IN  <<s % Base>> \o BigAddFrom(a, b, i + 1, s \div Base)

BigAdd(a, b) == BigAddFrom(a, b, 1, 0)

RECURSIVE BigSubFrom(_, _, _, _)
BigSubFrom(a, b, i, borrow) ==
    IF i > Len(a) THEN <<>>
    ELSE LET s == Digit(a, i) - Digit(b, i) - borrow
         IN  IF s < 0
             THEN <<s + Base>> \o BigSubFrom(a, b, i + 1, 1)
             ELSE <<s>> \o BigSubFrom(a, b, i + 1, 0)

\* a - b, for a >= b
BigSub(a, b) == BigTrim(BigSubFrom(a, b, 1, 0))

RECURSIVE BigCmpFrom(_, _, _)
BigCmpFrom(a, b, i) ==
    IF i = 0 THEN 0
    ELSE IF a[i] < b[i] THEN -1
    ELSE IF a[i] > b[i] THEN 1
    ELSE BigCmpFrom(a, b, i - 1)

\* -1, 0 or 1 as a < b, a = b or a > b
BigCmp(a, b) ==
    IF Len(a) < Len(b) THEN -1
    ELSE IF Len(a) > Len(b) THEN 1
    ELSE BigCmpFrom(a, b, Len(a))

\* a times the digit d
RECURSIVE BigMulDigitFrom(_, _, _, _)
BigMulDigitFrom(a, d, i, carry) ==
    IF i > Len(a)
    THEN (IF carry = 0 THEN <<>> ELSE <<carry>>)
    ELSE LET p == a[i] * d + carry
         IN  <<p % Base>> \o BigMulDigitFrom(a, d, i + 1, p \div Base)

RECURSIVE BigMulFrom(_, _, _)
BigMulFrom(a, b, j) ==
    IF j > Len(b) THEN <<>>
    ELSE BigAdd(BigMulDigitFrom(a, b[j], 1, 0),
                <<0>> \o BigMulFrom(a, b, j + 1))

BigMul(a, b) == BigTrim(BigMulFrom(a, b, 1))

\* a * 2^k
BigShl(a, k) ==
    IF a = <<>> THEN <<>>
    ELSE [i \in 1..(k \div DigitBits) |-> 0]
             \o BigMulDigitFrom(a, 2 ^ (k % DigitBits), 1, 0)

\* the digits i, i + 1, ... of b \div 2^r, for r < DigitBits
RECURSIVE BigShrFrom(_, _, _)
BigShrFrom(b, r, i) ==
    IF i > Len(b) THEN <<>>
    ELSE <<(b[i] \div (2 ^ r))
             + (Digit(b, i + 1) % (2 ^ r)) * (2 ^ (DigitBits - r))>>
             \o BigShrFrom(b, r, i + 1)

\* a \div 2^k
BigShr(a, k) ==
    LET w == k \div DigitBits
    IN  IF w >= Len(a) THEN <<>>
        ELSE BigTrim(BigShrFrom(SubSeq(a, w + 1, Len(a)), k % DigitBits, 1))

RECURSIVE DigitLen(_)
DigitLen(d) == IF d = 0 THEN 0 ELSE 1 + DigitLen(d \div 2)

\* the number of bits of a
BitLen(a) ==
    IF a = <<>> THEN 0
    ELSE DigitBits * (Len(a) - 1) + DigitLen(a[Len(a)])

\* a times the digit d
BigMulDigit(a, d) == BigTrim(BigMulDigitFrom(a, d, 1, 0))

\* the largest digit c <= d for which c * b is at most rem
RECURSIVE BigQuotDigit(_, _, _)
BigQuotDigit(rem, b, d) ==
    IF BigCmp(BigMulDigit(b, d), rem) <= 0 THEN d
    ELSE BigQuotDigit(rem, b, d - 1)

\* rem \div b for rem < b * Base, or a little more: the leading two digits
\* of rem by the leading digit of b
BigQuotGuess(rem, b) ==
    Min(Base - 1,
        (Digit(rem, Len(b) + 1) * Base + Digit(rem, Len(b))) \div b[Len(b)])

\* long division, one digit of the dividend at a time: from the quotient q
\* found so far and what is left to divide, rem, to the next digit c
BigDivTake(q, rem, b, c) ==
    [q |-> <<c>> \o q, r |-> BigSub(rem, BigMulDigit(b, c))]

BigDivDigitOf(q, rem, b) ==
    BigDivTake(q, rem, b, BigQuotDigit(rem, b, BigQuotGuess(rem, b)))

BigDivStep(s, digit, b) ==
    IF s.r = <<>> /\ digit = 0 THEN [q |-> <<0>> \o s.q, r |-> <<>>]
    ELSE BigDivDigitOf(s.q, <<digit>> \o s.r, b)

\* quotient (with leading zeros) and remainder by b of the digits i, i + 1,
\* ... of a
RECURSIVE BigDivTop(_, _, _)
BigDivTop(a, b, i) ==
    IF i > Len(a) THEN [q |-> <<>>, r |-> <<>>]
    ELSE BigDivStep(BigDivTop(a, b, i + 1), a[i], b)

BigDivTrimmed(s) == [q |-> BigTrim(s.q), r |-> s.r]

\* a \div b and a % b, for b > 0 (in few steps if the leading digit of b
\* is Base \div 2 or more)
BigDivMod(a, b) == BigDivTrimmed(BigDivTop(a, b, 1))

\* (r2 * Base + c) * c, which is (r * Base + c)^2 - (r * Base)^2 for
\* r2 = 2 * r
BigRootTrial(r2, c) == BigMulDigit(BigTrim(<<c>> \o r2), c)

\* the largest digit c among d, ..., d + 2^(i+1) - 1 for which
\* BigRootTrial(r2, c) is at most rem
RECURSIVE BigRootDigit(_, _, _, _)
BigRootDigit(rem, r2, i, d) ==
    IF i < 0 THEN d
    ELSE IF BigCmp(BigRootTrial(r2, d + 2 ^ i), rem) <= 0
         THEN BigRootDigit(rem, r2, i - 1, d + 2 ^ i)
         ELSE BigRootDigit(rem, r2, i - 1, d)

\* the square root by hand, two digits of a at a time: from the root r found
\* so far and what is left under the root, rem, to the next digit c
BigRootTake(r, r2, rem, c) ==
    [r |-> <<c>> \o r, rem |-> BigSub(rem, BigRootTrial(r2, c))]

BigRootDigitOf(r, r2, rem) ==
    BigRootTake(r, r2, rem, BigRootDigit(rem, r2, DigitBits - 1, 0))

BigRootStep(s, lo, hi) ==
    IF s.rem = <<>> /\ lo = 0 /\ hi = 0
    THEN [r |-> <<0>> \o s.r, rem |-> <<>>]
    ELSE BigRootDigitOf(s.r, BigMulDigit(s.r, 2),
                        BigTrim(<<lo, hi>> \o s.rem))

\* integer square root r and remainder rem of the digits 2 * i - 1, 2 * i,
\* ... of a
RECURSIVE BigRootTop(_, _)
BigRootTop(a, i) ==
    IF 2 * i - 1 > Len(a) THEN [r |-> <<>>, rem |-> <<>>]
    ELSE BigRootStep(BigRootTop(a, i + 1), a[2 * i - 1], Digit(a, 2 * i))

\* the integer part r of the square root of a, and rem = a - r^2
BigIsqrt(a) == BigRootTop(a, 1)

FZero == [m |-> <<>>, e |-> 0]

\* q * 2^e as a double, for a q of 53 bits or equal to 2^53
FNormal(q, e) ==
    IF BitLen(q) > MantissaBits
    THEN [m |-> BigShr(q, 1), e |-> e + 1]
    ELSE [m |-> q, e |-> e]

\* q * 2^e rounded up or not; c is -1, 0 or 1 as what was cut off q is
\* less than, equal to or more than half a unit of q
FRoundHalf(q, e, c, sticky) ==
    FNormal(IF c > 0 \/ (c = 0 /\ (sticky \/ q[1] % 2 = 1))
            THEN BigAdd(q, <<1>>) ELSE q,
            e)

\* n * 2^e rounded to q = n \div 2^sh
FRoundCut(n, e, sticky, sh, q) ==
    FRoundHalf(q, e + sh,
               BigCmp(BigSub(n, BigShl(q, sh)), BigShl(<<1>>, sh - 1)),
               sticky)

\* n * 2^e rounded, for a n of bits bits
FRoundBits(n, e, sticky, bits) ==
    IF bits <= MantissaBits
    THEN [m |-> BigShl(n, MantissaBits - bits),
          e |-> e - (MantissaBits - bits)]
    ELSE FRoundCut(n, e, sticky, bits - MantissaBits,
                   BigShr(n, bits - MantissaBits))

\* The double nearest to n * 2^e, or, if sticky, to a number strictly
\* between n * 2^e and (n + 1) * 2^e; sticky comes only with a n of more
\* than 54 bits.
FRound(n, e, sticky) ==
    IF n = <<>> THEN FZero ELSE FRoundBits(n, e, sticky, BitLen(n))

\* float(i) for a natural number i
FOfInt(i) == FRound(BigOf(i), 0, FALSE)

\* a + b
FAdd(a, b) ==
    IF a.m = <<>> THEN b
    ELSE IF b.m = <<>> THEN a
    ELSE LET e == Min(a.e, b.e)
         IN  FRound(BigAdd(BigShl(a.m, a.e - e), BigShl(b.m, b.e - e)),
                    e, FALSE)

\* abs(a - b)
BigAbsDiff(x, y) == IF BigCmp(x, y) >= 0 THEN BigSub(x, y) ELSE BigSub(y, x)

FAbsDiff(a, b) ==
    IF a.m = <<>> THEN b
    ELSE IF b.m = <<>> THEN a
    ELSE LET e == Min(a.e, b.e)
         IN  FRound(BigAbsDiff(BigShl(a.m, a.e - e), BigShl(b.m, b.e - e)),
                    e, FALSE)

\* a * b
FMul(a, b) ==
    IF a.m = <<>> \/ b.m = <<>> THEN FZero
    ELSE FRound(BigMul(a.m, b.m), a.e + b.e, FALSE)

\* a / b, for b # 0
FQuotient(d, e) == FRound(d.q, e, d.r # <<>>)

\* the shift that fills the leading digit of a mantissa
FillShift == DigitBits - (MantissaBits % DigitBits)

FDiv(a, b) ==
    IF a.m = <<>> THEN FZero
    ELSE FQuotient(BigDivMod(BigShl(a.m, 64 + FillShift),
                             BigShl(b.m, FillShift)),
                   a.e - b.e - 64)

FRoot(s, e) == FRound(s.r, e, s.rem # <<>>)

\* math.sqrt(a)
FSqrt(a) ==
    IF a.m = <<>> THEN FZero
    ELSE LET sh == IF a.e % 2 = 0 THEN 60 ELSE 61
         IN  FRoot(BigIsqrt(BigShl(a.m, sh)), (a.e - sh) \div 2)

\* -1, 0 or 1 as a < b, a = b or a > b
FCmp(a, b) ==
    IF a.m = <<>> \/ b.m = <<>>
    THEN (IF a.m = b.m THEN 0 ELSE IF a.m = <<>> THEN -1 ELSE 1)
    ELSE IF a.e < b.e THEN -1
    ELSE IF a.e > b.e THEN 1
    ELSE BigCmp(a.m, b.m)

\* a[1] + ... + a[n], added from the left
RECURSIVE FSumLeft(_, _)
FSumLeft(a, n) == IF n = 1 THEN a[1] ELSE FAdd(FSumLeft(a, n - 1), a[n])

\* the sequence f, as a tuple of its entries
Entries(f) == SubSeq(f, 1, Len(f))

\* (r[1] + r[2]) + (r[3] + r[4]) and so on, for 2, 4 or 8 numbers
RECURSIVE FSumPairs(_)
FSumPairs(r) ==
    IF Len(r) = 1 THEN r[1]
    ELSE FSumPairs(Entries([i \in 1..(Len(r) \div 2) |->
                               FAdd(r[2 * i - 1], r[2 * i])]))

\* a[j] + a[j + 8] + ... over the indices up to full, added from the left
FSumLane(a, j, full) ==
    FSumLeft(Entries([i \in 1..(full \div 8) |-> a[j + 8 * (i - 1)]]),
             full \div 8)

\* what ndarray.sum() adds from the left: fewer than 8 numbers as they are,
\* and otherwise the sum of the whole blocks of 8, which is the pairwise sum
\* of 8 running sums over them, followed by the numbers after those blocks
FSumTerms(a, n, full) ==
    IF n < 8 THEN a
    ELSE <<FSumPairs(Entries([j \in 1..8 |-> FSumLane(a, j, full)]))>>
             \o SubSeq(a, full + 1, n)

\* ndarray.sum() of 1 to 128 doubles: numpy's pairwise summation
FSumOf(t) == FSumLeft(t, Len(t))

FSum(a) == FSumOf(FSumTerms(a, Len(a), Len(a) - (Len(a) % 8)))

\* The doubles of lines 274-279 and 246-250, one after the other, in a
\* record that each step extends: the samples and their weights,
FVolInput(x) ==
    [values  |-> Entries([i \in 1..Len(x) |-> FOfInt(x[i])]),
     weights |-> Entries([i \in 1..Len(x) |->
                             FDiv(FOfInt(Weight(Len(x), i)), FOfInt(Len(x)))]),
     k       |-> RecentCount(x)]

\* the sum of the weights, by which np.average divides,
FVolScale(s) == s @@ [scl |-> FSum(s.weights)]

\* line 247,
FVolAverage(s) ==
    s @@ [average |->
             FDiv(FSum(Entries([i \in 1..Len(s.values) |->
                                   FMul(s.values[i], s.weights[i])])),
                  s.scl)]

\* line 249: values - average, up to the sign, which the square drops,
FVolDeviation(s) ==
    s @@ [dev |-> Entries([i \in 1..Len(s.values) |->
                              FAbsDiff(s.values[i], s.average)])]

FVolVariance(s) ==
    s @@ [variance |->
             FDiv(FSum(Entries([i \in 1..Len(s.values) |->
                                   FMul(FMul(s.dev[i], s.dev[i]),
                                        s.weights[i])])),
                  s.scl)]

\* line 250,
FVolStd(s) == s @@ [std |-> FSqrt(s.variance)]

\* and line 279: np.mean(num_clusters[:10])
FVolMean(s) ==
    s @@ [mean |-> FDiv(FSum(SubSeq(s.values, 1, s.k)), FOfInt(s.k))]

FVolRatio(s) == FDiv(s.std, s.mean)

\* lines 247-251 and 274-279: weighted_vol as the doubles compute it, for a
\* window x whose 10 most recent samples are not all 0
FloatWeightedVol(x) ==
    FVolRatio(FVolMean(FVolStd(FVolVariance(FVolDeviation(FVolAverage(
        FVolScale(FVolInput(x))))))))

FSignName(c) == IF c < 0 THEN "lt" ELSE IF c > 0 THEN "gt" ELSE "eq"

\* how the double weighted_vol compares with the double literal p/q
FloatCompareVol(x, p, q) ==
    FSignName(FCmp(FloatWeightedVol(x), FDiv(FOfInt(p), FOfInt(q))))


\* How weighted_vol compares with the double literal p/q: "lt", "eq", "gt";
\* "nan" when the division is 0/0 and "inf" when it is x/0 with x > 0 (numpy
\* floats).
CompareVol(x, p, q) ==
    LET d == VarianceNum(x)
        t == RecentSum(x)
        a == q * RecentCount(x)
        b == p * WeightSum(Len(x)) * t
    IN  IF t = 0 THEN (IF d = 0 THEN "nan" ELSE "inf")
        ELSE IF NearTie(a, d, b) THEN FloatCompareVol(x, p, q)
        ELSE IF SignSq(a, d, b) < 0 THEN "lt" ELSE "gt"

\* weighted_vol >= 0.199
VolGE199(x) == CompareVol(x, 199, 1000) \in {"gt", "eq", "inf"}
\* weighted_vol < 0.199
VolLT199(x) == CompareVol(x, 199, 1000) = "lt"
\* weighted_vol > 0.155
VolGT155(x) == CompareVol(x, 31, 200) \in {"gt", "inf"}
\* weighted_vol <= 0.15
VolLE15(x) == CompareVol(x, 3, 20) \in {"lt", "eq"}

\* the outcome of the four comparisons of weighted_vol
Volatility(x) ==
    [ge199 |-> VolGE199(x), lt199 |-> VolLT199(x),
     gt155 |-> VolGT155(x), le15 |-> VolLE15(x)]


(***************************************************************************)
(* training_signal_check: one pass of its `while True` loop, from the      *)
(* sleep of line 262 to the next await: the sleep again, or the publish of *)
(* line 320, after which lines 321-324 run as a step of their own.         *)
(* The decision rules work on a record of the locals they read and write;  *)
(* field t is the value the next call of time.time_ns() returns, and every *)
(* call moves it on by gap.                                                *)
(***************************************************************************)
CtlLocals ==
    [train_on_next_chance        |-> train_on_next_chance,
     stable                      |-> stable,
     training_start_ts_ns        |-> training_start_ts_ns,
     normal_periods              |-> normal_periods,
     num_templates_in_last_train |-> num_templates_in_last_train,
     published                   |-> <<>>,
     t                           |-> clock + SleepSeconds]

\* a deque without maxlen
AppendLeft_Unbounded(q, c) == <<c>> \o q

\* deque.appendleft on a deque of maxlen QueueCap
AppendLeft(q, c) == SubSeq(<<c>> \o q, 1, Min(Len(q) + 1, QueueCap))

\* the flag raised already above 0.155
RuleHighVolatility_Band(s, v) ==
    IF v.gt155 THEN [s EXCEPT !.train_on_next_chance = TRUE] ELSE s

\* lines 287-288
RuleHighVolatility(s, v) ==
    IF v.ge199 THEN [s EXCEPT !.train_on_next_chance = TRUE] ELSE s

\* lines 290-295
RuleOpenPeriod(s, v, first_ts, gap) ==
    IF v.lt199 /\ s.training_start_ts_ns # first_ts /\ s.train_on_next_chance
    THEN [s EXCEPT !.training_start_ts_ns = s.t, !.t = s.t + gap]
    ELSE s

\* lines 297-303
RuleClosePeriod(s, v, gap) ==
    IF v.gt155 /\ ~s.train_on_next_chance /\ s.stable
    THEN [s EXCEPT !.normal_periods =
                       Append(s.normal_periods,
                              [start_ts |-> s.training_start_ts_ns,
                               end_ts   |-> s.t]),
                   !.stable = FALSE,
                   !.training_start_ts_ns = NoPeriod,
                   !.t = s.t + gap]
    ELSE s

\* the condition without the cluster-growth disjunct
RetrainCondition_NoGrowth(v, awaiting, count, last_count) ==
    v.le15 /\ awaiting

\* the condition without the volatility test
RetrainCondition_NoVolatility(v, awaiting, count, last_count) ==
    awaiting \/ count > 2 * last_count

\* the growth test met already at twice the count of the last retrain
RetrainCondition_FromTwice(v, awaiting, count, last_count) ==
    v.le15 /\ (awaiting \/ count >= 2 * last_count)

\* the condition of lines 305-308
RetrainCondition(v, awaiting, count, last_count) ==
    v.le15 /\ (awaiting \/ count > 2 * last_count)

\* the history restarted at each trigger
CloseOpenPeriod_Reset(periods, start_ts, now) ==
    IF start_ts # NoPeriod
    THEN <<[start_ts |-> start_ts, end_ts |-> now]>>
    ELSE <<>>

\* the open period not closed at a trigger
CloseOpenPeriod_Dropped(periods, start_ts, now) == periods

\* the period appended without the test of line 311
CloseOpenPeriod_Unguarded(periods, start_ts, now) ==
    Append(periods, [start_ts |-> start_ts, end_ts |-> now])

\* lines 311-315: the still open period is closed into the history
CloseOpenPeriod(periods, start_ts, now) ==
    IF start_ts # NoPeriod
    THEN Append(periods, [start_ts |-> start_ts, end_ts |-> now])
    ELSE periods

\* the start timestamp left as it was
ReopenedStart_Stale(old_start, now) == old_start

\* line 324: the start of the period opened by a trigger
ReopenedStart(old_start, now) == now

\* lines 305-320, up to the await of nw.publish: the payload is
\* serialised and handed over, the flags and the start are as they were
RuleRetrain(s, v, count, gap) ==
    IF RetrainCondition(v, s.train_on_next_chance, count,
                        s.num_templates_in_last_train)
    THEN LET open    == s.training_start_ts_ns # NoPeriod
             periods == CloseOpenPeriod(s.normal_periods,
                                        s.training_start_ts_ns, s.t)
         IN  [s EXCEPT
                !.num_templates_in_last_train = count,
                !.normal_periods = periods,
                !.published = Append(s.published,
                                     [model_to_train |-> "nulog",
                                      time_intervals |-> periods]),
                !.t = IF open THEN s.t + gap ELSE s.t]
    ELSE s

\* the rules running from the third sample on
Acts_OneEarly(n) == n >= MinSamples

\* line 286: the rules run only on a window of more than 3 samples
Acts(n) == n > MinSamples

\* lines 286-324, on a window of n samples with volatility v
DecisionRules(s, n, v, count, first_ts, gap) ==
    IF Acts(n)
    THEN LET s1 == RuleHighVolatility(s, v)
             s2 == RuleOpenPeriod(s1, v, first_ts, gap)
             s3 == RuleClosePeriod(s2, v, gap)
         IN  RuleRetrain(s3, v, count, gap)
    ELSE s

\* no tick skipped
NothingToSample_Never(q, count) == FALSE

\* line 264: nothing sampled yet and no cluster learned
NothingToSample(q, count) == Len(q) = 0 /\ count = 0

\* lines 262-266
SkipTick(count) ==
    /\ Segment("training_signal_check")
    /\ ctl_pc = "sleeping"
    /\ NothingToSample(num_total_clusters_tracking_queue, count)
    /\ idle < MaxIdle
    /\ idle' = idle + 1
    /\ clock' = clock + SleepSeconds
    /\ tick_log' = [sampled |-> FALSE, acted |-> FALSE, fired |-> FALSE,
                    count |-> count, high |-> FALSE,
                    pre_last |-> num_templates_in_last_train,
                    pre_awaiting |-> train_on_next_chance,
                    settled |-> FALSE, at |-> clock + SleepSeconds,
                    sent |-> <<>>]
    /\ UNCHANGED <<num_total_clusters_tracking_queue, iteration,
                   num_templates_in_last_train, train_on_next_chance, stable,
                   training_start_ts_ns, very_first_ts_ns, normal_periods,
                   train_events, ctl_pc, always_high,
                   volatile_since_trigger>>
    /\ UNCHANGED pipe_vars

\* lines 262-320: a pass that samples, up to its next await
SampleTick(count, gap) ==
    /\ Segment("training_signal_check")
    /\ ctl_pc = "sleeping"
    /\ ~NothingToSample(num_total_clusters_tracking_queue, count)
    /\ \E x \in {AppendLeft(num_total_clusters_tracking_queue, count)} :
       \E v \in {Volatility(x)} :
       \E s \in {DecisionRules(CtlLocals, Len(x), v, count, very_first_ts_ns, gap)} :
           /\ iteration' = iteration + 1
           /\ num_total_clusters_tracking_queue' = x
           /\ train_on_next_chance' = s.train_on_next_chance
           /\ stable' = s.stable
           /\ training_start_ts_ns' = s.training_start_ts_ns
           /\ normal_periods' = s.normal_periods
           /\ num_templates_in_last_train' = s.num_templates_in_last_train
           /\ train_events' = train_events \o s.published
           /\ clock' = s.t
           /\ ctl_pc' = IF s.published # <<>> THEN "publishing"
                                               ELSE "sleeping"
           /\ tick_log' = [sampled |-> TRUE, acted |-> Acts(Len(x)),
                           fired |-> s.published # <<>>,
                           count |-> count,
                           high |-> Acts(Len(x)) /\ v.ge199,
                           pre_last |-> num_templates_in_last_train,
                           pre_awaiting |-> train_on_next_chance,
                           settled |-> Acts(Len(x)) /\ v.le15,
                           at |-> clock + SleepSeconds,
                           sent |-> s.published]
           /\ always_high' = (always_high /\ (Acts(Len(x)) => v.ge199))
           /\ volatile_since_trigger' =
                 IF s.published # <<>> THEN FALSE
                 ELSE (volatile_since_trigger \/ v.ge199)
    /\ UNCHANGED <<very_first_ts_ns, idle>>
    /\ UNCHANGED pipe_vars

\* lines 321-324: the pass resumes when the await of line 320 returns
TrainPublished(gap) ==
    /\ Segment("training_signal_check")
    /\ ctl_pc = "publishing"
    /\ train_on_next_chance' = FALSE
    /\ stable' = TRUE
    /\ training_start_ts_ns' = ReopenedStart(training_start_ts_ns, clock)
    /\ clock' = clock + gap
    /\ ctl_pc' = "sleeping"
    /\ UNCHANGED <<num_total_clusters_tracking_queue, iteration,
                   num_templates_in_last_train, very_first_ts_ns,
                   normal_periods, train_events, idle, tick_log, always_high,
                   volatile_since_trigger>>
    /\ UNCHANGED pipe_vars

\* the count is whatever len(template_miner.drain.clusters) holds
Tick ==
    /\ iteration < MaxTicks
    /\ \E count \in Counts, gap \in ReadGaps :
          SkipTick(count) \/ SampleTick(count, gap)

\* the count grows by at most one, and only on every RampPeriod-th sample
RampTick ==
    /\ iteration < MaxRampTicks
    /\ \E gap \in ReadGaps :
          \/ /\ num_total_clusters_tracking_queue = <<>>
             /\ \E count \in RampStarts : SampleTick(count, gap)
          \/ /\ num_total_clusters_tracking_queue # <<>>
             /\ SampleTick(Head(num_total_clusters_tracking_queue), gap)
          \/ /\ num_total_clusters_tracking_queue # <<>>
             /\ iteration % RampPeriod = 0
             /\ SampleTick(Head(num_total_clusters_tracking_queue) + 1, gap)

\* the count stays as it is between bursts of new templates
SpikeTick ==
    /\ iteration < MaxSpikeTicks
    /\ \E gap \in ReadGaps :
          \/ /\ num_total_clusters_tracking_queue = <<>>
             /\ \E count \in SpikeStarts : SampleTick(count, gap)
          \/ /\ num_total_clusters_tracking_queue # <<>>
             /\ SampleTick(Head(num_total_clusters_tracking_queue), gap)
          \/ /\ num_total_clusters_tracking_queue # <<>>
             /\ iteration % RampPeriod = 0
             /\ \E jump \in SpikeJumps :
                   SampleTick(Head(num_total_clusters_tracking_queue) + jump,
                              gap)

\* the count grows by at most one, and only on every FillPeriod-th sample,
\* while the window fills up and starts to evict
FillTick ==
    /\ iteration < MaxFillTicks
    /\ \E gap \in ReadGaps :
          \/ /\ num_total_clusters_tracking_queue = <<>>
             /\ \E count \in RampStarts : SampleTick(count, gap)
          \/ /\ num_total_clusters_tracking_queue # <<>>
             /\ SampleTick(Head(num_total_clusters_tracking_queue), gap)
          \/ /\ num_total_clusters_tracking_queue # <<>>
             /\ iteration % FillPeriod = 0
             /\ SampleTick(Head(num_total_clusters_tracking_queue) + 1, gap)

\* lines 252-259 and line 32
CtlInit ==
    /\ num_total_clusters_tracking_queue = <<>>
    /\ iteration = 0
    /\ num_templates_in_last_train = 0
    /\ train_on_next_chance = TRUE
    /\ stable = FALSE
    /\ training_start_ts_ns = StartTime
    /\ very_first_ts_ns = StartTime
    /\ normal_periods = <<>>
    /\ clock = StartTime
    /\ train_events = <<>>
    /\ idle = 0
    /\ tick_log = [sampled |-> FALSE, acted |-> FALSE, fired |-> FALSE,
                   count |-> 0, high |-> FALSE, pre_last |-> 0,
                   pre_awaiting |-> TRUE, settled |-> FALSE,
                   at |-> StartTime, sent |-> <<>>]
    /\ ctl_pc = "sleeping"
    /\ always_high = TRUE
    /\ volatile_since_trigger = FALSE

(***************************************************************************)
(* The pipeline: consume_logs, train_and_inference, update_es_logs.        *)
(* A DataFrame is the sequence of its rows, each row a record of its       *)
(* columns.                                                                *)
(***************************************************************************)
RECURSIVE Occurrences(_, _)
Occurrences(q, item) ==
    IF q = <<>> THEN 0
    ELSE (IF Head(q) = item THEN 1 ELSE 0) + Occurrences(Tail(q), item)

Range(q) == {q[i] : i \in 1..Len(q)}

\* DataFrame.to_json(): one object per column, keyed by the row index 0..n-1
ToJson(rows, columns) ==
    [c \in columns |-> [i \in 0..(Len(rows) - 1) |-> rows[i + 1][c]]]

\* pd.read_json(payload, dtype={"_id": object})
ReadJson(json, columns) ==
    [i \in 1..Cardinality(DOMAIN json["_id"]) |->
        [c \in columns |-> json[c][i - 1]]]

LogColumns == {"_id", "masked_log"}

PredictionColumns == {"_id", "drain_prediction", "drain_matched_template_id",
                      "drain_matched_template_support"}

\* asyncio.Queue.full()
Full(q) == QueueMaxSize > 0 /\ Len(q) >= QueueMaxSize

\* await queue.put(item)
Put(q, item) == Append(q, item)

\* queue.put(item) without await: the coroutine object is created and
\* dropped, nothing is enqueued
PutNotAwaited(q, item) == q

\* every text counted as a message
IsMessage_Always(text) == TRUE

\* line 69: if log_message
IsMessage(text) == text # <<>>

\* whether keyword occurs in text
Contains(text, keyword) ==
    \E i \in 1..(Len(text) - Len(keyword) + 1) :
        SubSeq(text, i, i + Len(keyword) - 1) = keyword

\* lines 333-340: the alternation (k1)|(k2)... of the non-empty keywords;
\* the empty sequence stands for the empty string
CompileKeywords(keywords) == SelectSeq(keywords, LAMBDA k : k # <<>>)

\* lines 102-103: an empty pattern is replaced by "a^", which matches nothing
EffectivePattern(alternatives) ==
    IF alternatives = <<>>
    THEN [never |-> TRUE, alternatives |-> <<>>]
    ELSE [never |-> FALSE, alternatives |-> alternatives]

\* Series.str.contains(pattern, regex=True): re.search; the empty regular
\* expression is found in every text
RegexSearch(pattern, text) ==
    IF pattern.never THEN FALSE
    ELSE IF pattern.alternatives = <<>> THEN TRUE
    ELSE \E k \in 1..Len(pattern.alternatives) :
            Contains(text, pattern.alternatives[k])

\* the support limit taken inclusively
LowSupport_Inclusive(support) == support <= SupportLimit

\* lines 105-106
LowSupport(support) == support <= SupportLimit /\ support # SupportLimit

\* lines 101-109
DrainPrediction(row, pattern) ==
    IF LowSupport(row.drain_matched_template_support)
       \/ RegexSearch(pattern, row.matched_template)
    THEN 1 ELSE 0

\* template_miner.add_log_message: the cluster of a text is the one mined
\* from the same text
ClusterOf(cl, text) ==
    IF \E i \in 1..Len(cl) : cl[i].template = text
    THEN CHOOSE i \in 1..Len(cl) : cl[i].template = text
    ELSE 0

AddLogMessage(cl, text) ==
    LET i == ClusterOf(cl, text)
    IN  IF i = 0
        THEN [clusters |-> Append(cl, [template |-> text, size |-> 1]),
              result   |-> [change_type |-> "cluster_created",
                            cluster_id |-> Len(cl) + 1,
                            template_mined |-> text,
                            cluster_size |-> 1]]
        ELSE [clusters |-> [cl EXCEPT ![i].size = @ + 1],
              result   |-> [change_type |-> "none",
                            cluster_id |-> i,
                            template_mined |-> text,
                            cluster_size |-> cl[i].size + 1]]

\* lines 71-80
InferenceRow(row, result) ==
    [_id |-> row._id,
     update_type |-> result.change_type,
     template_or_change_type |-> result.cluster_id,
     matched_template |-> result.template_mined,
     drain_matched_template_id |-> result.cluster_id,
     drain_matched_template_support |-> result.cluster_size]

\* lines 66-81: the rows in order; acc holds the clusters, the
\* inferencing_results and the texts handed to add_log_message so far
RECURSIVE InferBatch(_, _)
InferBatch(rows, acc) ==
    IF rows = <<>> THEN acc
    ELSE IF IsMessage(Head(rows).masked_log)
    THEN LET r == AddLogMessage(acc.clusters, Head(rows).masked_log)
         IN  InferBatch(Tail(rows),
                        [clusters |-> r.clusters,
                         results  |-> Append(acc.results,
                                             InferenceRow(Head(rows), r.result)),
                         calls    |-> Append(acc.calls, Head(rows).masked_log)])
    ELSE InferBatch(Tail(rows), acc)

\* df["update_type"].value_counts()
UpdateCount(results, kind) ==
    Len(SelectSeq(results, LAMBDA r : r.update_type = kind))

\* lines 87-98: a count is recorded only if the kind occurs in the batch
Track(window, results, kind) ==
    IF UpdateCount(results, kind) > 0
    THEN AppendLeft(window, UpdateCount(results, kind))
    ELSE window

\* lines 101-121: the rows of the prediction payload
Predictions(results, pattern) ==
    [i \in 1..Len(results) |->
        [_id |-> results[i]._id,
         drain_prediction |-> DrainPrediction(results[i], pattern),
         drain_matched_template_id |-> results[i].drain_matched_template_id,
         drain_matched_template_support |->
             results[i].drain_matched_template_support]]

NoScore == [done |-> FALSE, batch |-> <<>>, results |-> <<>>, calls |-> <<>>,
            published |-> FALSE, payload |-> <<>>]

NoPersist == [done |-> FALSE, batch |-> <<>>, first |-> "none",
              second |-> "none"]

\* subscribe_handler, lines 38-42: a batch arrives on "preprocessed_logs"
Receive(texts, limit) ==
    /\ Handled
    /\ received < limit
    /\ ~Full(incoming_logs_to_train_queue)
    /\ LET rows == [i \in 1..Len(texts) |->
                       [_id |-> <<received + 1, i>>, masked_log |-> texts[i]]]
       IN  incoming_logs_to_train_queue' =
              Put(incoming_logs_to_train_queue,
                  ReadJson(ToJson(rows, LogColumns), LogColumns))
    /\ received' = received + 1
    /\ UNCHANGED <<fail_keywords, logs_to_update_in_elasticsearch,
                   nats_anomalies, clusters,
                   num_clusters_created_tracking_queue,
                   num_templates_changed_tracking_queue,
                   num_no_templates_change_tracking_queue, es, crashed,
                   score_log, published_log, persist_pc, persist_df,
                   persist_first, popped_log, persist_log, score_pc>>
    /\ UNCHANGED ctl_vars

\* train_and_inference, lines 65-122: one pass of its loop
Score ==
    /\ Segment("train_and_inference")
    /\ score_pc = "running"
    /\ incoming_logs_to_train_queue # <<>>
    /\ incoming_logs_to_train_queue' = Tail(incoming_logs_to_train_queue)
    /\ \E batch \in {Head(incoming_logs_to_train_queue)} :
       \E r \in {InferBatch(batch, [clusters |-> clusters, results |-> <<>>,
                                    calls |-> <<>>])} :
          /\ clusters' = r.clusters
          /\ IF r.results = <<>>
             THEN \* line 85: an empty DataFrame has no column "update_type"
                  /\ crashed' = TRUE
                  /\ score_pc' = "raised"
                  /\ score_log' = [done |-> TRUE, batch |-> batch,
                                   results |-> r.results, calls |-> r.calls,
                                   published |-> FALSE, payload |-> <<>>]
                  /\ UNCHANGED <<nats_anomalies, published_log,
                                 num_clusters_created_tracking_queue,
                                 num_templates_changed_tracking_queue,
                                 num_no_templates_change_tracking_queue>>
             ELSE \E rows \in {Predictions(
                                 r.results,
                                 EffectivePattern(CompileKeywords(fail_keywords)))} :
                  /\ num_clusters_created_tracking_queue' =
                        Track(num_clusters_created_tracking_queue,
                              r.results, "cluster_created")
                  /\ num_templates_changed_tracking_queue' =
                        Track(num_templates_changed_tracking_queue,
                              r.results, "cluster_template_changed")
                  /\ num_no_templates_change_tracking_queue' =
                        Track(num_no_templates_change_tracking_queue,
                              r.results, "none")
                  /\ nats_anomalies' =
                        Append(nats_anomalies, ToJson(rows, PredictionColumns))
                  /\ published_log' = Append(published_log, rows)
                  /\ score_log' = [done |-> TRUE, batch |-> batch,
                                   results |-> r.results, calls |-> r.calls,
                                   published |-> TRUE, payload |-> rows]
                  /\ UNCHANGED <<crashed, score_pc>>
    /\ UNCHANGED <<fail_keywords, logs_to_update_in_elasticsearch, es,
                   received, persist_pc, persist_df, persist_first,
                   popped_log, persist_log>>
    /\ UNCHANGED ctl_vars

\* anomalies_subscription_handler, lines 44-47
Deliver ==
    /\ Handled
    /\ nats_anomalies # <<>>
    /\ ~Full(logs_to_update_in_elasticsearch)
    /\ logs_to_update_in_elasticsearch' =
          Put(logs_to_update_in_elasticsearch,
              ReadJson(Head(nats_anomalies), PredictionColumns))
    /\ nats_anomalies' = Tail(nats_anomalies)
    /\ UNCHANGED <<fail_keywords, incoming_logs_to_train_queue, clusters,
                   num_clusters_created_tracking_queue,
                   num_templates_changed_tracking_queue,
                   num_no_templates_change_tracking_queue, es, crashed,
                   received, score_log, published_log, persist_pc,
                   persist_df, persist_first, popped_log, persist_log,
                   score_pc>>
    /\ UNCHANGED ctl_vars

\* lines 171-172
TagForIndex(df) ==
    [i \in 1..Len(df) |->
        [_id |-> df[i]._id,
         drain_prediction |-> df[i].drain_prediction,
         drain_matched_template_id |-> df[i].drain_matched_template_id,
         drain_matched_template_support |->
             df[i].drain_matched_template_support,
         _op_type |-> "update", _index |-> "logs"]]

\* line 175
AnomalyRows(df) == SelectSeq(df, LAMBDA row : row.drain_prediction = 1)

\* lines 185-209: the queue after the bulk update of the anomalous rows
AfterAnomalyBulk(q, anomaly_df, outcome) ==
    IF outcome \in {"bulk_index_error", "connection_timeout", "timeout_error"}
    THEN PutNotAwaited(q, anomaly_df)
    ELSE q

\* lines 211-242: the queue after the bulk update of all rows
AfterFullBulk(q, df, outcome) ==
    IF outcome \in {"bulk_index_error", "connection_timeout"}
    THEN PutNotAwaited(q, df)
    ELSE q

\* a reconnect after every TransportError
Reconnects_AnyStatus(outcome) ==
    IF outcome \in {"transport_na", "transport_status"} THEN 1 ELSE 0

\* lines 207-209 and 240-242
Reconnects(outcome) == IF outcome = "transport_na" THEN 1 ELSE 0

\* what update_es_logs does not touch
PersistFrame ==
    /\ UNCHANGED <<fail_keywords, incoming_logs_to_train_queue,
                   nats_anomalies, clusters,
                   num_clusters_created_tracking_queue,
                   num_templates_changed_tracking_queue,
                   num_no_templates_change_tracking_queue, received,
                   score_log, published_log, score_pc>>
    /\ UNCHANGED ctl_vars

\* lines 169-186, entered with the queue holding q: an empty queue suspends
\* update_es_logs in queue.get(); otherwise get() returns at once and the
\* pass runs on to its first await, in the bulk call of line 186 or, without
\* an anomalous row, in the one of line 213
StartPass(q) ==
    IF q = <<>>
    THEN /\ logs_to_update_in_elasticsearch' = q
         /\ persist_pc' = "idle"
         /\ persist_df' = <<>>
         /\ persist_first' = "none"
         /\ UNCHANGED popped_log
    ELSE \E df \in {TagForIndex(Head(q))} :
            /\ logs_to_update_in_elasticsearch' = Tail(q)
            /\ persist_df' = df
            /\ popped_log' = Append(popped_log, Head(q))
            /\ IF AnomalyRows(df) = <<>>
               THEN persist_pc' = "second_bulk" /\ persist_first' = "skipped"
               ELSE persist_pc' = "first_bulk" /\ persist_first' = "none"

\* line 170: queue.get() returns to the suspended update_es_logs
PersistPop ==
    /\ Segment("update_es_logs")
    /\ persist_pc = "idle"
    /\ logs_to_update_in_elasticsearch # <<>>
    /\ StartPass(logs_to_update_in_elasticsearch)
    /\ UNCHANGED <<es, crashed, persist_log>>
    /\ PersistFrame

\* lines 186-213: the bulk update of the anomalous rows ends with outcome,
\* and the pass runs on into the bulk update of all rows;
\* setup_es_connection holds no await, so awaiting it suspends nothing
PersistFirstBulk(outcome) ==
    /\ Segment("update_es_logs")
    /\ persist_pc = "first_bulk"
    /\ logs_to_update_in_elasticsearch' =
          AfterAnomalyBulk(logs_to_update_in_elasticsearch,
                           AnomalyRows(persist_df), outcome)
    /\ es' = es + Reconnects(outcome)
    /\ persist_first' = outcome
    /\ persist_pc' = "second_bulk"
    /\ UNCHANGED <<crashed, persist_df, popped_log, persist_log>>
    /\ PersistFrame

\* lines 213-242 and 169-186: the bulk update of all rows ends with outcome,
\* which ends the pass, and the next pass starts
PersistSecondBulk(outcome) ==
    /\ Segment("update_es_logs")
    /\ persist_pc = "second_bulk"
    /\ es' = es + Reconnects(outcome)
    /\ persist_log' = [done |-> TRUE, batch |-> popped_log[Len(popped_log)],
                       first |-> persist_first, second |-> outcome]
    /\ IF outcome = "timeout_error"
       THEN \* asyncio's TimeoutError is not caught around the second bulk
            \* call: update_es_logs raises
            /\ crashed' = TRUE
            /\ persist_pc' = "raised"
            /\ UNCHANGED <<logs_to_update_in_elasticsearch, persist_df,
                           persist_first, popped_log>>
       ELSE /\ StartPass(AfterFullBulk(logs_to_update_in_elasticsearch,
                                       persist_df, outcome))
            /\ UNCHANGED crashed
    /\ PersistFrame

\* the number of log messages mined so far instead of the number of clusters
SampledCount_Messages(cl) ==
    SumFirst([i \in 1..Len(cl) |-> cl[i].size], Len(cl))

\* line 263: len(template_miner.drain.clusters)
SampledCount(cl) == Len(cl)

\* training_signal_check beside the other tasks: one pass of its loop,
\* reading the live cluster count where it resumes after the sleep
LiveTick ==
    /\ iteration < MaxLiveTicks
    /\ \E gap \in ReadGaps :
          \/ SkipTick(SampledCount(clusters))
          \/ SampleTick(SampledCount(clusters), gap)

\* sequences of at most n texts, at least one
RECURSIVE TextBatches(_)
TextBatches(n) ==
    IF n = 0 THEN {}
    ELSE {<<t>> : t \in Texts}
         \cup TextBatches(n - 1)
         \cup {Append(b, t) : b \in TextBatches(n - 1), t \in Texts}

\* the clusters loaded from drain3_state.bin (lines 24-25)
StoredClusters ==
    {SelectSeq(<<[template |-> <<"a">>, size |-> m],
                 [template |-> <<"a", "b">>, size |-> n]>>,
               LAMBDA c : c.size > 0) : m \in StoredSizes, n \in StoredSizes}

\* lines 24-32 and 333-346
PipeInit ==
    /\ fail_keywords \in KeywordConfigs
    /\ clusters \in StoredClusters
    /\ incoming_logs_to_train_queue = <<>>
    /\ logs_to_update_in_elasticsearch = <<>>
    /\ nats_anomalies = <<>>
    /\ num_clusters_created_tracking_queue = <<>>
    /\ num_templates_changed_tracking_queue = <<>>
    /\ num_no_templates_change_tracking_queue = <<>>
    /\ es = 1
    /\ crashed = FALSE
    /\ received = 0
    /\ score_log = NoScore
    /\ published_log = <<>>
    /\ persist_pc = "idle"
    /\ persist_df = <<>>
    /\ persist_first = "none"
    /\ popped_log = <<>>
    /\ persist_log = NoPersist
    /\ score_pc = "running"

\* the pipeline with nothing stored and no keyword configured
PipeQuiet ==
    /\ fail_keywords = << <<>> >>
    /\ clusters = <<>>
    /\ incoming_logs_to_train_queue = <<>>
    /\ logs_to_update_in_elasticsearch = <<>>
    /\ nats_anomalies = <<>>
    /\ num_clusters_created_tracking_queue = <<>>
    /\ num_templates_changed_tracking_queue = <<>>
    /\ num_no_templates_change_tracking_queue = <<>>
    /\ es = 1
    /\ crashed = FALSE
    /\ received = 0
    /\ score_log = NoScore
    /\ published_log = <<>>
    /\ persist_pc = "idle"
    /\ persist_df = <<>>
    /\ persist_first = "none"
    /\ popped_log = <<>>
    /\ persist_log = NoPersist
    /\ score_pc = "running"

\* lines 360-367: the raise of a task is on its way to run_until_complete
\* and the loop iteration under way ends; the loop starts its next
\* iteration or, after the iteration in which run_until_complete's callback
\* ran, stops
EndIteration ==
    /\ crashed
    /\ ~stopped
    /\ IF loop_left > 0
       THEN /\ loop_left' = loop_left - 1
            /\ ran' = {}
            /\ UNCHANGED stopped
       ELSE /\ stopped' = TRUE
            /\ UNCHANGED <<loop_left, ran>>
    /\ UNCHANGED <<ctl_vars, pipe_vars>>

Init == PipeInit /\ CtlInit /\ LoopInit

\* batches of the pipeline specification: one record each, and one batch
\* of two records
PipeBatches == {<<t>> : t \in Texts} \cup {<< <<"a">>, <<"a", "b">> >>}

Next ==
    \/ \E texts \in PipeBatches : Receive(texts, MaxBatches)
    \/ Score
    \/ Deliver
    \/ PersistPop
    \/ \E outcome \in BulkOutcomes : PersistFirstBulk(outcome)
    \/ \E outcome \in BulkOutcomes : PersistSecondBulk(outcome)
    \/ EndIteration

Spec == Init /\ [][Next]_vars

\* ingestion and scoring alone, on every batch of up to MaxBatchLen records
ScoreNext ==
    \/ \E texts \in TextBatches(MaxBatchLen) : Receive(texts, MaxScoredBatches)
    \/ Score
    \/ EndIteration

SpecScore == Init /\ [][ScoreNext]_vars

\* batches in which every record has a text
NormalBatches == {<< <<"a">> >>, << <<"a", "b">> >>}

\* the pipeline under normal operation: every batch holds a message and
\* every bulk call succeeds, so no task raises
NormalNext ==
    \/ \E texts \in NormalBatches : Receive(texts, MaxNormalBatches)
    \/ Score
    \/ Deliver
    \/ PersistPop
    \/ PersistFirstBulk("ok")
    \/ PersistSecondBulk("ok")

SpecNormal == Init /\ [][NormalNext]_vars

\* the controller beside ingestion and scoring; the row loop of lines 66-81
\* holds no await, so no other task runs inside a scoring pass
LiveNext ==
    \/ \E texts \in PipeBatches : Receive(texts, MaxLiveBatches)
    \/ Score
    \/ LiveTick
    \/ \E gap \in ReadGaps : TrainPublished(gap)
    \/ EndIteration

SpecLive == Init /\ [][LiveNext]_vars

\* the controller alone
ControllerInit == CtlInit /\ PipeQuiet /\ LoopInit

CtlNext ==
    \/ Tick
    \/ \E gap \in ReadGaps : TrainPublished(gap)

SpecCtl == ControllerInit /\ [][CtlNext]_vars

RampNext ==
    \/ RampTick
    \/ \E gap \in ReadGaps : TrainPublished(gap)

SpecRamp == ControllerInit /\ [][RampNext]_vars

SpikeNext ==
    \/ SpikeTick
    \/ \E gap \in ReadGaps : TrainPublished(gap)

SpecSpike == ControllerInit /\ [][SpikeNext]_vars

FillNext ==
    \/ FillTick
    \/ \E gap \in ReadGaps : TrainPublished(gap)

SpecFill == ControllerInit /\ [][FillNext]_vars

(***************************************************************************)
(* Properties of the retrain signal controller.                            *)
(***************************************************************************)
IsPrefix(a, b) == Len(a) <= Len(b) /\ SubSeq(b, 1, Len(a)) = a

\* a trigger had fired before the last loop pass
TriggeredBefore == Len(train_events) > Len(tick_log.sent)

\* the last loop pass saw more than twice the count of the last trigger
GrownPastTwice ==
    /\ tick_log.acted
    /\ TriggeredBefore
    /\ tick_log.count > 2 * tick_log.pre_last

\* C3 as stated: after a retrain trigger at cluster count N, a later tick
\* at which the count exceeds 2*N fires a retrain again although
\* weighted_vol is still above the retrain threshold.
C3_FiresWhileVolatile ==
    (GrownPastTwice /\ ~tick_log.settled) => tick_log.fired

\* C3 as amended: after a retrain trigger at cluster count N, a later
\* acting tick at which the count exceeds 2*N fires a retrain again exactly
\* when weighted_vol <= 0.15 at that tick; it then fires even if
\* train_on_next_chance is false, and it does not fire while
\* weighted_vol > 0.15.
C3_GrowthTriggerNeedsLowVolatility ==
    GrownPastTwice => (tick_log.fired <=> tick_log.settled)

\* a retrain fired through the growth disjunct alone
C3_Witness ==
    /\ GrownPastTwice
    /\ ~tick_log.pre_awaiting
    /\ ~tick_log.high
    /\ tick_log.fired

NoSharedPeriod(a, b) ==
    \A i \in 1..Len(a) : \A j \in 1..Len(b) : a[i] # b[j]

\* C4 as stated: the history is cleared with each retrain emission: right
\* after an emission it is empty, and no StablePeriod is in the
\* time_intervals of two emitted train events.
C4_ClearedOnEmission ==
    /\ tick_log.fired => normal_periods = <<>>
    /\ \A i \in 1..Len(train_events) : \A j \in 1..Len(train_events) :
          i < j => NoSharedPeriod(train_events[i].time_intervals,
                                  train_events[j].time_intervals)

C4_EventsArePrefixes ==
    /\ \A i \in 1..Len(train_events) :
          IsPrefix(train_events[i].time_intervals, normal_periods)
    /\ \A i \in 1..Len(train_events) : \A j \in 1..Len(train_events) :
          i < j => IsPrefix(train_events[i].time_intervals,
                            train_events[j].time_intervals)
    /\ tick_log.fired =>
          /\ normal_periods # <<>>
          /\ train_events[Len(train_events)].time_intervals = normal_periods

\* C4 as amended: the history only grows by appends and is never cleared,
\* not even by a retrain emission: every emitted train event carries the
\* whole history accumulated so far, so the time_intervals of an event is a
\* prefix of those of every later event, and right after an emission the
\* history equals the emitted time_intervals and is not empty.
C4_HistoryAppendOnly ==
    /\ []C4_EventsArePrefixes
    /\ [][IsPrefix(normal_periods, normal_periods')]_vars

\* two train events were emitted, the second with more periods
C4_Witness ==
    /\ Len(train_events) >= 2
    /\ Len(train_events[2].time_intervals) > Len(train_events[1].time_intervals)

\* C5: every StablePeriod of the history has start_ts <= end_ts, and for
\* consecutive periods p, q of the history p.end_ts <= q.start_ts.
C5_HistoryOrdered ==
    /\ \A i \in 1..Len(normal_periods) :
          normal_periods[i].start_ts <= normal_periods[i].end_ts
    /\ \A i \in 1..(Len(normal_periods) - 1) :
          normal_periods[i].end_ts <= normal_periods[i + 1].start_ts

\* a history of two periods, the second closed by the closing rule
C5_Witness ==
    /\ Len(normal_periods) >= 2
    /\ ~stable
    /\ training_start_ts_ns = NoPeriod

\* C6: a tick that leaves fewer than 4 samples in the window emits no
\* retrain event and changes neither the flags, nor the open-period start,
\* nor the count at the last train, nor the history.
C6_NoActionBeforeFourSamples ==
    [][Len(num_total_clusters_tracking_queue') < 4 =>
          UNCHANGED <<train_events, train_on_next_chance, stable,
                      training_start_ts_ns, normal_periods,
                      num_templates_in_last_train>>]_vars

\* the third sample was taken
C6_Witness ==
    /\ tick_log.sampled
    /\ ~tick_log.acted
    /\ Len(num_total_clusters_tracking_queue) = 3

ConstantWindow ==
    /\ num_total_clusters_tracking_queue # <<>>
    /\ Len(num_total_clusters_tracking_queue) = iteration
    /\ \A i \in 1..Len(num_total_clusters_tracking_queue) :
          /\ num_total_clusters_tracking_queue[i] # 0
          /\ num_total_clusters_tracking_queue[i] =
                num_total_clusters_tracking_queue[1]

\* C7: from the initial state a constant non-zero count sequence fires no
\* retrain before the 4th sampled tick and one on the 4th; that event
\* carries exactly one StablePeriod, whose end_ts is the time of the tick.
C7_ConstantFiresOnFourth ==
    ConstantWindow =>
        /\ iteration < 4 => train_events = <<>>
        /\ iteration = 4 =>
              /\ tick_log.fired
              /\ Len(train_events) = 1
              /\ Len(train_events[1].time_intervals) = 1
              /\ train_events[1].time_intervals[1].end_ts = tick_log.at
              /\ train_events[1].time_intervals[1].start_ts = very_first_ts_ns

\* the sequence 5, 5, 5, 5 has fired
C7_Witness ==
    /\ num_total_clusters_tracking_queue = <<5, 5, 5, 5>>
    /\ tick_log.fired
    /\ Len(train_events) = 1

\* C8: while weighted_vol >= 0.199 at every acting tick so far, no retrain
\* event has fired and train_on_next_chance is true.
C8_NoRetrainWhileHigh ==
    always_high => (train_events = <<>> /\ train_on_next_chance)

\* the sequence 1, 10, 1, 10, 1, 10 was sampled, each acting tick volatile
C8_Witness ==
    /\ num_total_clusters_tracking_queue = <<10, 1, 10, 1, 10, 1>>
    /\ always_high
    /\ tick_log.high

\* C11: the sample window never holds more than its capacity of 50
\* entries; every sampled tick puts the new count at the front of the
\* window and keeps the older samples in order behind it, and once the
\* window is full it drops exactly the oldest sample.
C11_WindowSlides ==
    /\ [](Len(num_total_clusters_tracking_queue) <= QueueCap)
    /\ [][iteration' # iteration =>
             LET old == num_total_clusters_tracking_queue
                 new == num_total_clusters_tracking_queue'
             IN  /\ Len(new) = Min(Len(old) + 1, QueueCap)
                 /\ new[1] = tick_log'.count
                 /\ \A i \in 2..Len(new) : new[i] = old[i - 1]]_vars

\* two samples were evicted from a full window that holds distinct counts
C11_Witness ==
    /\ iteration = QueueCap + 2
    /\ Len(num_total_clusters_tracking_queue) = QueueCap
    /\ num_total_clusters_tracking_queue[1]
          # num_total_clusters_tracking_queue[QueueCap]

\* C12: a sampled tick fires the retrain trigger exactly when the window
\* holds at least 4 samples, weighted_vol <= 0.15 and either
\* train_on_next_chance was true or the count exceeds twice the count at
\* the last retrain; a trigger publishes exactly one event on "train" and
\* leaves the count at the last retrain equal to the current count and,
\* once the publish has returned, train_on_next_chance false, stable true
\* and an open period that starts at the time of the trigger.
C12_TriggerExactlyWhenDue ==
    tick_log.sampled =>
        /\ tick_log.fired <=>
              /\ Len(num_total_clusters_tracking_queue) >= 4
              /\ VolLE15(num_total_clusters_tracking_queue)
              /\ \/ tick_log.pre_awaiting
                 \/ tick_log.count > 2 * tick_log.pre_last
        /\ tick_log.fired =>
              /\ Len(tick_log.sent) = 1
              /\ train_events # <<>>
              /\ train_events[Len(train_events)] = tick_log.sent[1]
              /\ tick_log.sent[1].model_to_train = "nulog"
              /\ num_templates_in_last_train = tick_log.count
              /\ ctl_pc = "sleeping" =>
                    /\ ~train_on_next_chance
                    /\ stable
                    /\ tick_log.at <= training_start_ts_ns
                    /\ training_start_ts_ns <= clock
        /\ ~tick_log.fired =>
              /\ tick_log.sent = <<>>
              /\ num_templates_in_last_train = tick_log.pre_last

\* the second trigger of a run has fired, and the count it recorded is
\* the one of its tick
C12_Witness ==
    /\ tick_log.fired
    /\ ctl_pc = "sleeping"
    /\ Len(train_events) = 2
    /\ num_templates_in_last_train = tick_log.count
    /\ tick_log.count > tick_log.pre_last

\* the trigger that is waiting for its publish to return has closed the
\* period that starts at start_ts into the history
ClosedByTrigger(start_ts) ==
    /\ ctl_pc = "publishing"
    /\ normal_periods # <<>>
    /\ normal_periods[Len(normal_periods)].start_ts = start_ts

\* C13: the start timestamp of a period that is open is never overwritten
\* before that period is closed into the history: when the start of an
\* open period changes, the tick has appended a StablePeriod with the old
\* start to the history, or the trigger that the step completes had.
C13_OpenStartKept ==
    [][(training_start_ts_ns # NoPeriod
        /\ training_start_ts_ns' # training_start_ts_ns) =>
           \/ \E i \in (Len(normal_periods) + 1)..Len(normal_periods') :
                  normal_periods'[i].start_ts = training_start_ts_ns
           \/ ClosedByTrigger(training_start_ts_ns)]_vars

\* C18: while stable is true a period is open, i.e. training_start_ts_ns
\* is not the sentinel -1; and no StablePeriod whose start is the sentinel
\* is ever in the history or in an emitted train event, whether appended
\* by the closing rule or by a retrain trigger.
C18_NoSentinelPeriod ==
    /\ stable => training_start_ts_ns # NoPeriod
    /\ \A i \in 1..Len(normal_periods) :
          normal_periods[i].start_ts # NoPeriod
    /\ \A e \in 1..Len(train_events) :
          \A i \in 1..Len(train_events[e].time_intervals) :
              train_events[e].time_intervals[i].start_ts # NoPeriod

\* a retrain fired after the closing rule had closed the open period: the
\* trigger found the sentinel and appended nothing
C18_Witness ==
    /\ tick_log.fired
    /\ ~tick_log.pre_awaiting
    /\ stable
    /\ Len(train_events) = 2
    /\ Len(normal_periods) = 2
    /\ normal_periods[2].end_ts < tick_log.at
    /\ train_events[2].time_intervals = normal_periods

\* the samples of the window, most recent first, never decreased over time
NeverDecreased(q) == \A i \in 1..(Len(q) - 1) : q[i] >= q[i + 1]

\* C19: while the sampled count has never decreased, the sum, and so the
\* mean, of the up to 10 most recent samples is strictly positive on every
\* window the volatility is computed on; and a tick that finds the window
\* empty and reads a count of zero is skipped: it changes neither the
\* iteration counter nor the window.
C19_MeanPositive ==
    /\ []((num_total_clusters_tracking_queue # <<>>
            /\ NeverDecreased(num_total_clusters_tracking_queue))
           => (RecentCount(num_total_clusters_tracking_queue) > 0
               /\ RecentSum(num_total_clusters_tracking_queue) > 0))
    /\ [][(num_total_clusters_tracking_queue = <<>> /\ tick_log'.count = 0)
            => UNCHANGED <<iteration, num_total_clusters_tracking_queue>>]_vars

\* a tick was skipped, then the growing counts 1, 1, 5, 7 were sampled
C19_Witness ==
    /\ idle = 1
    /\ num_total_clusters_tracking_queue = <<7, 5, 1, 1>>
    /\ tick_log.acted

\* C20: when a retrain trigger fires after an earlier one, either some
\* tick strictly between the two saw weighted_vol >= 0.199, or the count
\* at the second trigger exceeds twice the count recorded at the first;
\* so a tick that reads the count recorded at the last trigger, with no
\* weighted_vol >= 0.199 seen since, fires nothing.
C20_SecondTriggerHasCause ==
    /\ [][(train_events # <<>> /\ train_events' # train_events) =>
             \/ volatile_since_trigger
             \/ tick_log'.count > 2 * num_templates_in_last_train]_vars
    /\ [][(train_events # <<>>
            /\ ~volatile_since_trigger
            /\ tick_log'.count = num_templates_in_last_train)
           => train_events' = train_events]_vars

\* a second trigger fired after a volatile tick, at a count of no more
\* than twice the one of the first trigger
C20_Witness ==
    /\ tick_log.fired
    /\ Len(train_events) = 2
    /\ tick_log.pre_awaiting
    /\ tick_log.count <= 2 * tick_log.pre_last
    /\ ~volatile_since_trigger

(***************************************************************************)
(* Properties of the pipeline.                                             *)
(***************************************************************************)
\* the last finished persistence pass met a bulk-indexing error or a client
\* timeout
TransientFailure ==
    /\ persist_log.done
    /\ \/ persist_log.first \in {"bulk_index_error", "connection_timeout",
                                 "timeout_error"}
       \/ persist_log.second \in {"bulk_index_error", "connection_timeout"}

\* C1: after a bulk operation on a popped batch failed with a transient
\* error, that batch is on the persistence queue again, exactly once.
C1_FailedBatchRequeued ==
    TransientFailure =>
        Occurrences(logs_to_update_in_elasticsearch, persist_log.batch) = 1

\* the decoded messages in flight on "anomalies"
InFlight ==
    [i \in 1..Len(nats_anomalies) |->
        ReadJson(nats_anomalies[i], PredictionColumns)]

\* C2: the persistence queue has a capacity; once it holds that many
\* batches it is full and the Scoring Stage is suspended until the
\* Persistence Stage has drained it, so the queue never holds more.  The
\* capacity is one that the batches received can fill while the
\* Persistence Stage is held in a bulk call on the first of them: with it
\* held there, the queue never holds all the other batches.  And every
\* scored batch reaches the Persistence Stage exactly once: it is exactly
\* once on its way to the persistence queue, on it, or popped from it.
C2_FullQueueSuspendsScoring ==
    /\ persist_pc \in {"first_bulk", "second_bulk"} =>
          Len(logs_to_update_in_elasticsearch) < MaxNormalBatches - 1
    /\ \A p \in Range(published_log) \cup Range(InFlight)
                \cup Range(logs_to_update_in_elasticsearch)
                \cup Range(popped_log) :
          Occurrences(InFlight, p)
              + Occurrences(logs_to_update_in_elasticsearch, p)
              + Occurrences(popped_log, p) = Occurrences(published_log, p)

\* the rows of a batch whose text is not empty
WithText(batch) == SelectSeq(batch, LAMBDA row : row.masked_log # <<>>)

\* C9: the records of the last scored batch that have a non-empty text
\* produce one ScoredRecord each, carrying their ids in batch order, the
\* records with empty text none; add_log_message was called once per
\* non-empty record, in batch order.
C9_OneScoredRecordPerMessage ==
    score_log.done =>
        LET rows == WithText(score_log.batch)
        IN  /\ Len(score_log.results) = Len(rows)
            /\ \A i \in 1..Len(rows) : score_log.results[i]._id = rows[i]._id
            /\ score_log.calls = [i \in 1..Len(rows) |-> rows[i].masked_log]
            /\ score_log.published =>
                  /\ Len(score_log.payload) = Len(rows)
                  /\ \A i \in 1..Len(rows) :
                        score_log.payload[i]._id = rows[i]._id

\* a batch of an empty and a non-empty record was scored and published
C9_Witness ==
    /\ score_log.published
    /\ Len(score_log.batch) = 2
    /\ score_log.batch[1].masked_log = <<>>
    /\ score_log.batch[2].masked_log # <<>>
    /\ Len(score_log.payload) = 1

\* some configured keyword occurs in the template
KeywordHit(template) ==
    \E k \in 1..Len(fail_keywords) :
        /\ fail_keywords[k] # <<>>
        /\ Contains(template, fail_keywords[k])

\* C10: every ScoredRecord of the last payload is flagged exactly when its
\* cluster_support is below 10 or a configured keyword occurs in its
\* template; with no keyword configured, exactly when the support is
\* below 10.
C10_AnomalyFlag ==
    score_log.published =>
        \A i \in 1..Len(score_log.payload) :
            LET support == score_log.payload[i].drain_matched_template_support
                flagged == score_log.payload[i].drain_prediction = 1
            IN  /\ score_log.payload[i].drain_prediction \in {0, 1}
                /\ flagged <=>
                      (support < 10
                       \/ KeywordHit(score_log.results[i].matched_template))
                /\ (\A k \in 1..Len(fail_keywords) : fail_keywords[k] = <<>>)
                      => (flagged <=> support < 10)

\* no keyword configured, and a record of support exactly 10 is not flagged
\* while a record of support 1 is
C10_Witness ==
    /\ score_log.published
    /\ \A k \in 1..Len(fail_keywords) : fail_keywords[k] = <<>>
    /\ \E i \in 1..Len(score_log.payload) :
          /\ score_log.payload[i].drain_matched_template_support = 10
          /\ score_log.payload[i].drain_prediction = 0
    /\ \E i \in 1..Len(score_log.payload) :
          /\ score_log.payload[i].drain_matched_template_support = 1
          /\ score_log.payload[i].drain_prediction = 1

\* 1 for a bulk call that raised a TransportError without a status code
Statusless(outcome) == IF outcome = "transport_na" THEN 1 ELSE 0

\* a step in which the second bulk call of a pass ends: update_es_logs
\* raises, waits for a batch or has popped the next one
SecondBulkEnded ==
    /\ persist_pc = "second_bulk"
    /\ persist_pc' # persist_pc \/ popped_log' # popped_log

\* C14: update_es_logs sets up the search-store client anew once for each
\* bulk call that raised a transport error without a status code, before
\* its next bulk call, and for no other outcome; a bulk call that raised a
\* transport error, with or without a status code, puts nothing back on
\* the persistence queue: the batch is dropped, and the queue is left as it
\* was but for the batch that the next pass pops.
C14_TransportErrorReconnects ==
    /\ [][(persist_pc = "first_bulk" /\ persist_pc' # persist_pc) =>
             /\ es' = es + Statusless(persist_first')
             /\ persist_first' \in {"transport_na", "transport_status"} =>
                   logs_to_update_in_elasticsearch' =
                       logs_to_update_in_elasticsearch]_vars
    /\ [][SecondBulkEnded =>
             /\ es' = es + Statusless(persist_log'.second)
             /\ persist_log'.second \in {"transport_na", "transport_status"} =>
                   logs_to_update_in_elasticsearch' =
                       IF logs_to_update_in_elasticsearch = <<>> THEN <<>>
                       ELSE Tail(logs_to_update_in_elasticsearch)]_vars

\* a pass whose first bulk call met an unreachable store and whose second
\* one was refused with a status code: one reconnect, the batch gone
C14_Witness ==
    /\ persist_log.first = "transport_na"
    /\ persist_log.second = "transport_status"
    /\ es = 2
    /\ logs_to_update_in_elasticsearch = <<>>

\* C15: no failure of a bulk call ends the Persistence Stage: whatever
\* the two bulk calls of a pass did, the stage is still running after the
\* pass and can pop the next batch.
C15_BulkFailureSurvived ==
    [][SecondBulkEnded => persist_pc' # "raised"]_vars

\* C16: for every batch the Scoring Stage has popped, also one whose
\* records all have an empty text, it has published exactly one prediction
\* message, and that scored batch is exactly once in flight on "anomalies",
\* on the persistence queue or popped from it.
C16_EveryBatchPublished ==
    score_log.done =>
        /\ score_log.published
        /\ Occurrences(published_log, score_log.payload) = 1
        /\ Occurrences(InFlight, score_log.payload)
              + Occurrences(logs_to_update_in_elasticsearch, score_log.payload)
              + Occurrences(popped_log, score_log.payload) = 1

\* the cluster counts at the batch boundaries so far: the live count less
\* the clusters created by the most recent k scored batches
BatchBoundaryCounts ==
    {Len(clusters) - SumFirst(num_clusters_created_tracking_queue, k) :
        k \in 0..Len(num_clusters_created_tracking_queue)}

\* C17: only a pass of the Scoring Stage changes the clusters; a pass of
\* the controller leaves them as they are and samples their number; every
\* count the controller has sampled is the number of clusters after a
\* whole number of scored batches.
C17_ControllerReadsBetweenBatches ==
    /\ [][clusters' # clusters =>
             (score_log' # score_log /\ UNCHANGED <<iteration, idle>>)]_vars
    /\ [][(iteration' # iteration \/ idle' # idle) =>
             /\ clusters' = clusters
             /\ tick_log'.count = Len(clusters)]_vars
    /\ [](tick_log.sampled => tick_log.count \in BatchBoundaryCounts)

\* the controller sampled one stored cluster, then a scored batch of two
\* records created a second cluster, and the controller sampled again
C17_Witness ==
    /\ tick_log.sampled
    /\ num_clusters_created_tracking_queue = <<1>>
    /\ Len(score_log.results) = 2
    /\ num_total_clusters_tracking_queue = <<2, 1>>
    /\ tick_log.count = Len(clusters)

=============================================================================
